---- MODULE Spec2Model ----
(***************************************************************************)
(* PairRepeatSampler (swift/rlhf_trainers/pair_sampler.py): a pair-id      *)
(* based index sampler.  The model holds the dataset, the sampler objects  *)
(* (one per process), the generator objects returned by iter(sampler) and  *)
(* the seeded pseudo-random generator, seen as a fixed but unknown         *)
(* function from a seed to the stream of draws it produces: the draws of a *)
(* seed are chosen when the seed is first used and kept from then on.      *)
(* Arguments and example fields are integers (booleans for shuffle), on    *)
(* which the constructor's int() and bool() change nothing.                *)
(***************************************************************************)
EXTENDS Integers, Sequences, FiniteSets, TLC

\* ---------------------------------------------------------------- bounds
MaxN == 3          \* longest dataset of arbitrary examples
MaxPairs == 3      \* most pairs in a dataset of well-formed pairs
MaxK == 2          \* largest mini_repeat_count
MaxWorld == 2      \* largest world_size (and rank)

PairIds == {1, 2}
Sides == {0, 1, 2}           \* 2 stands for any side value other than 0/1
Seeds == {0, 1}
Epochs == {0, 1}
Samplers == {1, 2}           \* sampler objects (one per process)
Gens == {1, 2}               \* generator objects

\* every dataset of at most MaxN examples
Example == [pair_id : PairIds, side : Sides]
AnyDatasets == UNION {[1..k -> Example] : k \in 0..MaxN}

\* datasets of n pairs, both sides present once, either side first
PairedDatasets ==
    UNION {{ds \in [1..(2 * n) -> [pair_id : 1..n, side : {0, 1}]] :
              \A p \in 1..n : /\ ds[2 * p - 1].pair_id = p
                              /\ ds[2 * p].pair_id = p
                              /\ ds[2 * p - 1].side # ds[2 * p].side}
           : n \in 1..MaxPairs}

Datasets == AnyDatasets \cup PairedDatasets

\* one dataset per pair count: odd pair ids are stored side 1 first
JobDatasets == {ds \in PairedDatasets : \A p \in 1..(Len(ds) \div 2) : ds[2 * p - 1].side = p % 2}

VARIABLES
    data_source,   \* the dataset: a sequence of examples, index i-1 at position i
    sampler,       \* sampler objects: the fields of each PairRepeatSampler
    gens,          \* generator objects: the frames of __iter__
    rng            \* random.Random: seed |-> the draws its shuffle makes

vars == <<data_source, sampler, gens, rng>>

\* ------------------------------------------------------------ construction
EmptyDict == [x \in {} |-> 0]

\* pair_to[pid][side] = idx on a defaultdict(dict); keys remembers insertion order
DictSet(acc, pid, side, idx) ==
    LET old == IF pid \in DOMAIN acc.map THEN acc.map[pid] ELSE EmptyDict
        d == [s \in (DOMAIN old) \cup {side} |-> IF s = side THEN idx ELSE old[s]]
    IN  [keys |-> IF pid \in DOMAIN acc.map THEN acc.keys ELSE Append(acc.keys, pid),
         map |-> [p \in (DOMAIN acc.map) \cup {pid} |-> IF p = pid THEN d ELSE acc.map[p]]]

\* for idx in range(self.n): ex = data_source[idx]; pair_to[pid][side] = idx
RECURSIVE Scan(_, _, _)
Scan(ds, i, acc) ==
    IF i > Len(ds) THEN acc
    ELSE Scan(ds, i + 1, DictSet(acc, ds[i].pair_id, ds[i].side, i - 1))

\* a filter that keeps a pair as soon as one of its sides is present
IsCompleteEither(d) == 0 \in DOMAIN d \/ 1 \in DOMAIN d

\* the dict comprehension's condition: 0 in d and 1 in d
IsComplete(d) == 0 \in DOMAIN d /\ 1 \in DOMAIN d

\* {pid: d for pid, d in pair_to.items() if 0 in d and 1 in d}
CompleteOnly(acc) ==
    LET keep == {p \in DOMAIN acc.map : IsComplete(acc.map[p])}
    IN  [keys |-> SelectSeq(acc.keys, LAMBDA p : p \in keep),
         map |-> [p \in keep |-> acc.map[p]]]

BuildPairTo(ds) == CompleteOnly(Scan(ds, 1, [keys |-> <<>>, map |-> EmptyDict]))

\* a check that only rejects the empty dataset
RaisesNoExamples(built) == Len(data_source) = 0

\* if len(self.pair_to) == 0: raise ValueError
RaisesNoPairs(built) == Cardinality(DOMAIN built.map) = 0

NoSampler ==
    [status |-> "none", n |-> 0, mini_repeat_count |-> 0, shuffle |-> FALSE,
     seed |-> 0, rank |-> 0, world_size |-> 0, epoch |-> 0,
     pair_to |-> EmptyDict, pairs |-> <<>>]

\* PairRepeatSampler(data_source, K, sh, sd, rk, ws)
__init__(i, K, sh, sd, rk, ws) ==
    /\ sampler[i].status = "none"
    /\ LET built == BuildPairTo(data_source)
       IN  sampler' = [sampler EXCEPT ![i] =
             IF RaisesNoPairs(built)
             THEN [NoSampler EXCEPT !.status = "ValueError"]
             ELSE [status |-> "built", n |-> Len(data_source),
                   mini_repeat_count |-> K, shuffle |-> sh, seed |-> sd,
                   rank |-> rk, world_size |-> ws, epoch |-> 0,
                   pair_to |-> built.map, pairs |-> built.keys]]
    /\ UNCHANGED <<data_source, gens, rng>>

\* ------------------------------------------------------------------ epoch
set_epoch(i, e) ==
    /\ sampler[i].status = "built"
    /\ sampler' = [sampler EXCEPT ![i].epoch = e]
    /\ UNCHANGED <<data_source, gens, rng>>

\* ---------------------------------------------------------------- shuffle
\* the draws random.shuffle makes on a list of n items: j = randbelow(i + 1)
\* for i = n-1 down to 1; draws[k] is the k-th draw, so draws[k] <= n - k
DrawSeqs(n) ==
    IF n < 2 THEN {<<>>}
    ELSE {d \in [1..(n - 1) -> 0..(n - 1)] : \A k \in 1..(n - 1) : d[k] <= n - k}

\* an unseeded generator: every shuffle draws afresh
RngDrawsUnseeded(table, s, n) == DrawSeqs(n)

\* random.Random(s): the generator seeded with s always makes the same draws
RngDraws(table, s, n) ==
    IF s \in DOMAIN table THEN {table[s]} ELSE DrawSeqs(n)

RngRecord(table, s, d) ==
    [k \in (DOMAIN table) \cup {s} |-> IF k = s THEN d ELSE table[k]]

\* a seed that differs from rank to rank
RngSeedPerRank(s) == s.seed + s.epoch + s.rank

\* a seed that ignores the epoch
RngSeedNoEpoch(s) == s.seed

\* random.Random(self.seed + self.epoch)
RngSeed(s) == s.seed + s.epoch

Swap(x, a, b) == [x EXCEPT ![a] = x[b], ![b] = x[a]]

\* for i in reversed(range(1, len(x))): j = randbelow(i + 1); x[i], x[j] = x[j], x[i]
RECURSIVE ShuffleFrom(_, _, _)
ShuffleFrom(x, draws, i) ==
    IF i < 1 THEN x
    ELSE ShuffleFrom(Swap(x, i + 1, draws[Len(x) - i] + 1), draws, i - 1)

rng_shuffle(x, draws) == ShuffleFrom(x, draws, Len(x) - 1)

\* ------------------------------------------------------------------ slice
\* x[start::step], step # 0: the start index after Python's adjustment
SliceStart(len, start, step) ==
    IF start < 0
    THEN (IF start + len < 0 THEN (IF step < 0 THEN -1 ELSE 0) ELSE start + len)
    ELSE (IF start >= len THEN (IF step < 0 THEN len - 1 ELSE len) ELSE start)

RECURSIVE SliceFrom(_, _, _)
SliceFrom(x, i, step) ==
    IF i < 0 \/ i >= Len(x) THEN <<>>
    ELSE <<x[i + 1]>> \o SliceFrom(x, i + step, step)

\* pairs[self.rank :: self.world_size]
Shard(x, rk, ws) == SliceFrom(x, SliceStart(Len(x), rk, ws), ws)

\* -------------------------------------------------------------- iteration
NoGen ==
    [pc |-> "free", owner |-> 0, pairs |-> <<>>, pos |-> 0, side |-> 0, rep |-> 0,
     out |-> <<>>, reqEpoch |-> 0, startEpoch |-> 0]

Stop == [pos |-> 0, side |-> 0, rep |-> 0]

\* the first yield of the emit loop, or Stop when the loops yield nothing
FirstYield(nLocal, K) ==
    IF nLocal >= 1 /\ K >= 1 THEN [pos |-> 1, side |-> 0, rep |-> 0] ELSE Stop

\* an emit loop that alternates the sides: idx0, idx1, idx0, idx1, ...
NextYieldInterleaved(at, nLocal, K) ==
    IF at.side = 0 THEN [at EXCEPT !.side = 1]
    ELSE IF at.rep + 1 < K THEN [pos |-> at.pos, side |-> 0, rep |-> at.rep + 1]
    ELSE IF at.pos + 1 <= nLocal THEN [pos |-> at.pos + 1, side |-> 0, rep |-> 0]
    ELSE Stop

\* the yield that follows the yield at (pos, side, rep)
NextYield(at, nLocal, K) ==
    IF at.rep + 1 < K THEN [at EXCEPT !.rep = at.rep + 1]
    ELSE IF at.side = 0 THEN [pos |-> at.pos, side |-> 1, rep |-> 0]
    ELSE IF at.pos + 1 <= nLocal THEN [pos |-> at.pos + 1, side |-> 0, rep |-> 0]
    ELSE Stop

\* a second loop that yields idx0 again
YieldSide0(pair_to, pid, side) == pair_to[pid][0]

\* idx0 = self.pair_to[pid][0]; idx1 = self.pair_to[pid][1]
YieldValue(pair_to, pid, side) == pair_to[pid][side]

\* pairs = self.pairs: the shuffle works on the sampler's own list
SelfPairsShuffled(selfPairs, shuffled) == shuffled

\* list(self.pairs): the shuffle works on a copy, self.pairs keeps its order
SelfPairsAfter(selfPairs, shuffled) == selfPairs

\* iter(sampler): the generator object g; no line of __iter__ has run yet
__iter__(i, g) ==
    /\ sampler[i].status = "built"
    /\ gens[g].pc = "free"
    /\ gens' = [gens EXCEPT ![g] =
          [NoGen EXCEPT !.pc = "created", !.owner = i, !.reqEpoch = sampler[i].epoch]]
    /\ UNCHANGED <<data_source, sampler, rng>>

\* the generator moves to the yield `at` (or returns): what next() leaves behind
Resume(gen, s, at) ==
    IF at = Stop
    THEN [gen EXCEPT !.pc = "done", !.pos = 0, !.side = 0, !.rep = 0]
    ELSE [gen EXCEPT !.pc = "suspended", !.pos = at.pos, !.side = at.side,
                     !.rep = at.rep,
                     !.out = Append(gen.out,
                                    YieldValue(s.pair_to, gen.pairs[at.pos], at.side))]

\* first next(): the body runs from its first line to the first yield
Start(g) ==
    LET s == sampler[gens[g].owner]
    IN  /\ gens[g].pc = "created"
        /\ \E d \in (IF s.shuffle THEN RngDraws(rng, RngSeed(s), Len(s.pairs))
                     ELSE {<<>>}) :
            LET order == IF s.shuffle THEN rng_shuffle(s.pairs, d) ELSE s.pairs
                started == [gens[g] EXCEPT !.startEpoch = s.epoch]
            IN  /\ rng' = IF s.shuffle THEN RngRecord(rng, RngSeed(s), d) ELSE rng
                /\ sampler' = [sampler EXCEPT ![gens[g].owner].pairs =
                                  SelfPairsAfter(s.pairs, order)]
                /\ IF s.world_size = 0
                   THEN gens' = [gens EXCEPT ![g] = [started EXCEPT !.pc = "ValueError"]]
                   ELSE LET local == Shard(order, s.rank, s.world_size)
                            gen == [started EXCEPT !.pairs = local]
                        IN  gens' = [gens EXCEPT ![g] =
                               Resume(gen, s, FirstYield(Len(local), s.mini_repeat_count))]
        /\ UNCHANGED data_source

\* a later next(): the body runs from the yield it stopped at to the next one
Continue(g) ==
    LET s == sampler[gens[g].owner]
        gen == gens[g]
    IN  /\ gen.pc = "suspended"
        /\ gens' = [gens EXCEPT ![g] =
              Resume(gen, s, NextYield([pos |-> gen.pos, side |-> gen.side, rep |-> gen.rep],
                                       Len(gen.pairs), s.mini_repeat_count))]
        /\ UNCHANGED <<data_source, sampler, rng>>

__next__(g) == Start(g) \/ Continue(g)

\* a length that rounds the rank's share up, as a padding sampler would
LenPadded(s) ==
    IF s.world_size = 0 THEN "ValueError"
    ELSE ((Len(s.pairs) + s.world_size - 1) \div s.world_size) * 2 * s.mini_repeat_count

\* len(self.pairs[self.rank :: self.world_size]) * 2 * K; "ValueError" when the
\* slice step is zero
__len__(s) ==
    IF s.world_size = 0 THEN "ValueError"
    ELSE Len(Shard(s.pairs, s.rank, s.world_size)) * 2 * s.mini_repeat_count

\* ---------------------------------------------------------- specification
NoObjects ==
    /\ sampler = [i \in Samplers |-> NoSampler]
    /\ gens = [g \in Gens |-> NoGen]
    /\ rng = EmptyDict

\* One process, one pass: a dataset of well-formed pairs, any arguments the
\* constructor accepts (zero and negative ones too).
Init == data_source \in JobDatasets /\ NoObjects

Next ==
    \/ \E K \in -1..MaxK, sh \in BOOLEAN, sd \in Seeds,
          rk \in -1..MaxWorld, ws \in -1..MaxWorld : __init__(1, K, sh, sd, rk, ws)
    \/ \E e \in Epochs : set_epoch(1, e)
    \/ __iter__(1, 1)
    \/ __next__(1)

Spec == Init /\ [][Next]_vars

\* One process, one pass: any dataset, the constructor's defaults rank = 0 and
\* world_size = 1.
InitData == data_source \in Datasets /\ NoObjects

NextData ==
    \/ \E K \in 1..MaxK, sh \in BOOLEAN, sd \in Seeds : __init__(1, K, sh, sd, 0, 1)
    \/ \E e \in Epochs : set_epoch(1, e)
    \/ __iter__(1, 1)
    \/ __next__(1)

SpecData == InitData /\ [][NextData]_vars

\* A distributed job: one sampler per process, all built from the same dataset
\* with the same shuffle, seed and world_size, each with a rank of the world;
\* each process sets its epoch and then runs one pass, the processes pull in any
\* interleaving.  The processes are interchangeable: process 1 starts first and
\* has the lower rank.
HasPass(i) == \E g \in Gens : gens[g].owner = i /\ gens[g].pc # "free"

SameJob(K, sh, sd, ws) ==
    \A j \in Samplers : sampler[j].status = "built" =>
        /\ sampler[j].mini_repeat_count = K
        /\ sampler[j].shuffle = sh
        /\ sampler[j].seed = sd
        /\ sampler[j].world_size = ws

InitWorld == data_source \in JobDatasets /\ NoObjects

NextWorld ==
    \/ \E i \in Samplers, sh \in BOOLEAN, sd \in Seeds, ws \in 1..MaxWorld :
          \E rk \in 0..(ws - 1) :
              /\ SameJob(1, sh, sd, ws)
              /\ \A j \in Samplers : j < i => sampler[j].status = "built" /\ sampler[j].rank <= rk
              /\ __init__(i, 1, sh, sd, rk, ws)
    \/ \E i \in Samplers, e \in Epochs : ~HasPass(i) /\ set_epoch(i, e)
    \/ \E i \in Samplers : __iter__(i, i)
    \/ \E g \in Gens : __next__(g)

SpecWorld == InitWorld /\ [][NextWorld]_vars

\* One process running two passes over its sampler, pulled in any interleaving,
\* the epoch set at any moment; K = 1, seed = 1, rank and world_size the defaults.
NextPasses ==
    \/ \E sh \in BOOLEAN : __init__(1, 1, sh, 1, 0, 1)
    \/ \E e \in Epochs : set_epoch(1, e)
    \/ \E g \in Gens : (\A h \in Gens : h < g => gens[h].pc # "free") /\ __iter__(1, g)
    \/ \E g \in Gens : __next__(g)

SpecPasses == InitWorld /\ [][NextPasses]_vars

\* ------------------------------------------------ vocabulary of the claims
Range(f) == {f[k] : k \in DOMAIN f}
IsPrefix(a, b) == Len(a) <= Len(b) /\ SubSeq(b, 1, Len(a)) = a
Repeat(v, k) == [j \in 1..k |-> v]
Built(i) == sampler[i].status = "built"
Started(g) == gens[g].pc \in {"suspended", "done"}
Done(g) == gens[g].pc = "done"
Owner(g) == sampler[gens[g].owner]

\* pair ids with at least one side-0 example and at least one side-1 example
CompletePairs(ds) ==
    {p \in {ds[k].pair_id : k \in DOMAIN ds} :
        /\ \E k \in DOMAIN ds : ds[k].pair_id = p /\ ds[k].side = 0
        /\ \E k \in DOMAIN ds : ds[k].pair_id = p /\ ds[k].side = 1}

\* the dataset index of pair p's side: the last example carrying (p, side)
SideIndex(ds, p, side) ==
    CHOOSE idx \in 0..(Len(ds) - 1) :
        /\ ds[idx + 1] = [pair_id |-> p, side |-> side]
        /\ \A k \in DOMAIN ds : k > idx + 1 => ds[k] # [pair_id |-> p, side |-> side]

\* side 0 K times then side 1 K times, pair after pair
RECURSIVE Blocks(_, _, _)
Blocks(ds, ps, K) ==
    IF ps = <<>> THEN <<>>
    ELSE Repeat(SideIndex(ds, Head(ps), 0), K) \o Repeat(SideIndex(ds, Head(ps), 1), K)
         \o Blocks(ds, Tail(ps), K)

\* the pair list a pass started under epoch e works on
OrderAt(s, e) ==
    IF s.shuffle THEN rng_shuffle(s.pairs, rng[s.seed + e]) ELSE s.pairs

OrderKnown(s, e) == s.shuffle => (s.seed + e) \in DOMAIN rng

\* positions r, r+W, r+2W, ... of a list (0-based), for 0 <= r and W >= 1
Stride(x, r, W) ==
    [k \in 1..(IF Len(x) > r THEN (Len(x) - r + W - 1) \div W ELSE 0) |-> x[r + (k - 1) * W + 1]]

\* two finished passes of one job taken under the same seed and epoch
SameShuffle(g, h) ==
    /\ Done(g) /\ Done(h)
    /\ Owner(g).seed = Owner(h).seed
    /\ Owner(g).shuffle = Owner(h).shuffle
    /\ Owner(g).world_size = Owner(h).world_size
    /\ gens[g].startEpoch = gens[h].startEpoch

\* C1: the ranks' selections are disjoint, cover every complete pair when every
\* rank has run its pass, and rank r selects positions r, r+W, r+2W, ... of the
\* (shuffled or unshuffled) pair list.
C1_StrideCover ==
    /\ \A g \in Gens : Done(g) /\ Owner(g).world_size >= 1 =>
          /\ OrderKnown(Owner(g), gens[g].startEpoch)
          /\ gens[g].pairs = Stride(OrderAt(Owner(g), gens[g].startEpoch),
                                    Owner(g).rank, Owner(g).world_size)
    /\ \A g, h \in Gens : SameShuffle(g, h) /\ Owner(g).rank # Owner(h).rank =>
          Range(gens[g].pairs) \cap Range(gens[h].pairs) = {}
    /\ \A g \in Gens : Done(g) =>
          LET peers == {h \in Gens : SameShuffle(g, h)}
          IN  {Owner(h).rank : h \in peers} = 0..(Owner(g).world_size - 1) =>
                /\ UNION {Range(gens[h].pairs) : h \in peers} = CompletePairs(data_source)
                /\ \A p \in CompletePairs(data_source) :
                      Cardinality({Owner(h).rank : h \in {x \in peers : p \in Range(gens[x].pairs)}}) = 1

C1_Witness ==
    /\ Done(1) /\ Done(2) /\ SameShuffle(1, 2)
    /\ Owner(1).shuffle /\ Owner(1).world_size = 2
    /\ Owner(1).rank = 0 /\ Owner(2).rank = 1
    /\ Len(Owner(1).pairs) = 3
    /\ OrderAt(Owner(1), gens[1].startEpoch) # Owner(1).pairs
    /\ Len(gens[1].pairs) = 2 /\ Len(gens[2].pairs) = 1

\* C2: a finished pass holds side 0 of a pair exactly when it holds side 1 of it,
\* and no two ranks of a job split a pair between them.
C2_SidesTogether ==
    /\ \A g \in Gens : Done(g) =>
          \A p \in CompletePairs(data_source) :
              (SideIndex(data_source, p, 0) \in Range(gens[g].out))
                  <=> (SideIndex(data_source, p, 1) \in Range(gens[g].out))
    /\ \A g, h \in Gens : SameShuffle(g, h) /\ Owner(g).rank # Owner(h).rank =>
          \A p \in CompletePairs(data_source) :
              ~ (/\ SideIndex(data_source, p, 0) \in Range(gens[g].out)
                 /\ SideIndex(data_source, p, 1) \in Range(gens[h].out))

C2_Witness ==
    /\ SameShuffle(1, 2) /\ Owner(1).rank # Owner(2).rank
    /\ Owner(1).shuffle /\ Len(Owner(1).pairs) = 3
    /\ gens[1].out # <<>> /\ gens[2].out # <<>>
    /\ \E p \in CompletePairs(data_source) :
          SideIndex(data_source, p, 1) < SideIndex(data_source, p, 0)
          /\ SideIndex(data_source, p, 1) \in Range(gens[2].out)

\* C3: for K >= 1 a pass emits, pair after pair of its selection, the side-0 index
\* K times and then the side-1 index K times.
C3_Blocks ==
    \A g \in Gens : Started(g) /\ Owner(g).mini_repeat_count >= 1 =>
        LET want == Blocks(data_source, gens[g].pairs, Owner(g).mini_repeat_count)
        IN  /\ IsPrefix(gens[g].out, want)
            /\ Done(g) => gens[g].out = want

C3_Witness ==
    /\ Done(1) /\ Owner(1).mini_repeat_count = 2
    /\ Len(gens[1].pairs) = 2 /\ Len(gens[1].out) = 8
    /\ gens[1].out[1] = gens[1].out[2] /\ gens[1].out[2] # gens[1].out[3]

\* C4: a built sampler's pair index holds exactly the complete pairs of the dataset.
C4_CompletePairsOnly ==
    \A i \in Samplers : Built(i) =>
        /\ DOMAIN sampler[i].pair_to = CompletePairs(data_source)
        /\ Range(sampler[i].pairs) = CompletePairs(data_source)
        /\ Len(sampler[i].pairs) = Cardinality(CompletePairs(data_source))

C4_Witness ==
    /\ Built(1)
    /\ \E k \in DOMAIN data_source :
          /\ data_source[k].pair_id \notin DOMAIN sampler[1].pair_to
          /\ data_source[k].side = 2
    /\ Cardinality(DOMAIN sampler[1].pair_to) = 1

\* C5: construction raises ValueError exactly when the dataset has no complete
\* pair, and then there is no sampler to iterate.
C5_NoPairsRaises ==
    \A i \in Samplers :
        /\ sampler[i].status = "ValueError" =>
              /\ CompletePairs(data_source) = {}
              /\ sampler[i] = [NoSampler EXCEPT !.status = "ValueError"]
              /\ \A g \in Gens : gens[g].owner # i
        /\ Built(i) => CompletePairs(data_source) # {}

C5_Witness ==
    /\ sampler[1].status = "ValueError"
    /\ Len(data_source) = 3
    /\ \E k \in DOMAIN data_source : data_source[k].side = 0
    /\ \E k \in DOMAIN data_source : data_source[k].side = 1

\* C6: two finished passes of samplers with the same seed, epoch, rank, world_size,
\* K and shuffle = true over the same dataset emit the same sequence.
C6_Deterministic ==
    \A g, h \in Gens :
        /\ SameShuffle(g, h) /\ Owner(g).shuffle
        /\ Owner(g).rank = Owner(h).rank
        /\ Owner(g).mini_repeat_count = Owner(h).mini_repeat_count
        => /\ gens[g].out = gens[h].out
           /\ gens[g].pairs = gens[h].pairs

C6_Witness ==
    /\ SameShuffle(1, 2) /\ Owner(1).shuffle /\ Owner(1).rank = Owner(2).rank
    /\ gens[1].owner # gens[2].owner
    /\ Len(Owner(1).pairs) = 3 /\ Owner(1).world_size = 1
    /\ gens[1].pairs # Owner(1).pairs
    /\ gens[1].startEpoch = 1

\* C7: for world_size # 0 and K >= 0 a pass never emits more than __len__ says and
\* a finished pass has emitted exactly __len__ = 2 * K * (pairs of the rank) indices.
C7_LenIsEmitted ==
    \A g \in Gens :
        Started(g) /\ Owner(g).world_size # 0 /\ Owner(g).mini_repeat_count >= 0 =>
            /\ __len__(Owner(g)) = 2 * Owner(g).mini_repeat_count * Len(gens[g].pairs)
            /\ Len(gens[g].out) <= __len__(Owner(g))
            /\ gens[g].pc = "suspended" => gens[g].out # <<>>
            /\ Done(g) => Len(gens[g].out) = __len__(Owner(g))

C7_Witness ==
    /\ Done(1) /\ Owner(1).world_size = 2 /\ Owner(1).rank = 1
    /\ Len(Owner(1).pairs) = 3 /\ Owner(1).shuffle /\ gens[1].startEpoch = 1
    /\ Owner(1).mini_repeat_count = 2 /\ Len(gens[1].out) = 4

\* C8: once construction has succeeded a pass raises nothing and emits only
\* indices of the dataset.
C8_IterationCannotFail ==
    \A g \in Gens :
        /\ gens[g].pc # "ValueError"
        /\ \A k \in DOMAIN gens[g].out : gens[g].out[k] \in 0..(Len(data_source) - 1)

\* the pair mapping and the pair list are what construction built
C9_BuiltIsKept ==
    \A i \in Samplers : Built(i) =>
        /\ sampler[i].pair_to = BuildPairTo(data_source).map
        /\ sampler[i].pairs = BuildPairTo(data_source).keys

\* no step changes a field of a built sampler other than its epoch, and a step
\* that changes the epoch changes nothing else
C9_EpochOnlyStep ==
    \A i \in Samplers : Built(i) =>
        /\ sampler'[i] = [sampler[i] EXCEPT !.epoch = sampler'[i].epoch]
        /\ sampler'[i].epoch # sampler[i].epoch =>
              /\ UNCHANGED <<data_source, gens, rng>>
              /\ \A j \in Samplers \ {i} : sampler'[j] = sampler[j]

\* C9: set_epoch changes the epoch and nothing else, and whatever is called the pair
\* mapping and the pair list stay what construction built.
C9_EpochOnly == []C9_BuiltIsKept /\ [][C9_EpochOnlyStep]_vars

C9_Witness ==
    /\ Done(1) /\ Owner(1).shuffle /\ Owner(1).epoch = 1 /\ gens[1].startEpoch = 0
    /\ Owner(1).world_size = 1 /\ gens[1].pairs # Owner(1).pairs

\* C10 as stated: two passes requested under the same epoch emit the same sequence.
C10_EpochAtRequest ==
    \A g, h \in Gens :
        Done(g) /\ Done(h) /\ gens[g].owner = gens[h].owner
        /\ gens[g].reqEpoch = gens[h].reqEpoch
        => gens[g].out = gens[h].out

\* C10 amended: a pass is ordered by seed + the epoch current at its first next();
\* set_epoch after that changes nothing of it, and two passes started under the
\* same epoch emit the same sequence.
C10_EpochAtFirstNext ==
    /\ \A g \in Gens : Started(g) =>
          /\ OrderKnown(Owner(g), gens[g].startEpoch)
          /\ gens[g].pairs = Shard(OrderAt(Owner(g), gens[g].startEpoch),
                                   Owner(g).rank, Owner(g).world_size)
          /\ IsPrefix(gens[g].out,
                      Blocks(data_source, gens[g].pairs, Owner(g).mini_repeat_count))
    /\ \A g, h \in Gens :
          Done(g) /\ Done(h) /\ gens[g].owner = gens[h].owner
          /\ gens[g].startEpoch = gens[h].startEpoch
          => gens[g].out = gens[h].out

C10_Witness ==
    /\ Done(1) /\ Done(2) /\ Owner(1).shuffle /\ Len(Owner(1).pairs) >= 2
    /\ gens[1].reqEpoch = gens[2].reqEpoch
    /\ gens[1].startEpoch # gens[2].startEpoch
    /\ gens[1].out # gens[2].out
    /\ Owner(2).epoch # gens[2].startEpoch
====
